---------------------------- MODULE Spec2Model ----------------------------
(***************************************************************************)
(* Riparian: the chunked, multiprocess spatial join of                     *)
(* create_lotic_water.py (sjoin_mp and its worker sjoin).                  *)
(*                                                                         *)
(* A geometry is the set of grid cells it covers, with a validity flag: a  *)
(* malformed geometry makes the geometry engine raise when a predicate is  *)
(* evaluated on it.  gpd.sjoin(how='inner') is modelled by its documented  *)
(* result: one row per (left record, right record) pair satisfying the     *)
(* predicate, carrying the left columns and the column index_right.        *)
(* multiprocessing.Pool.map is modelled by its MapResult: one slot per     *)
(* task, filled by task index, ready once every task has finished, and     *)
(* keeping the first exception.                                            *)
(***************************************************************************)
EXTENDS Integers, Sequences, FiniteSets

VARIABLES
    df1,             \* left collection: sequence of [id, geometry] records
    df2,             \* right collection: sequence of geometries (index 0..)
    sjoin_op,        \* predicate name
    pc,              \* position of the coordinator inside sjoin_mp
    batch_size,      \* sjoin_mp's batch_size
    chunk_iterator,  \* sjoin_mp's list of (chunk, df2, sjoin_op) arguments
    pool,            \* the process pool: "none", "open", "closed"
    task,            \* per worker invocation: "queued", "running", "done", "failed"
    map_value,       \* MapResult._value: one slot per task
    map_exc,         \* the stored first exception: {} or {worker index}
    sj_results,      \* sjoin_mp's sj_results
    ret,             \* what the caller of sjoin_mp has received
    lotic_gdf,       \* remove_disconnected_features' lotic_gdf
    removed,         \* the number remove_disconnected_features reports as removed
    rip_pc,          \* run_riparian.py: position inside createRiparian
    rip_layers,      \* run_riparian.py: the area covered by each layer
    rip_raster,      \* run_riparian.py: the rasterized mask, <<>> or <<area>>
    cr_pc,           \* run_riparian_2.py: position inside createRiparian
    workspace,       \* run_riparian_2.py: each layer "absent", "empty" or "full"
    raster_fields,   \* run_riparian_2.py: the layers that have a field Raster
    in_table,        \* run_riparian_2.py: createRiparian's in_table, <<>> unassigned
    rasterized,      \* run_riparian_2.py: the layer PolygonToRaster converted
    cr_error,        \* run_riparian_2.py: the exception createRiparian raised
    hucs,            \* run_riparian_2.py: the HUC shapefile names, each split at "."
    huc_i,           \* run_riparian_2.py: position of the for loop in hucs
    main_pc,         \* run_riparian_2.py: position inside the loop body
    huc_ras_list,    \* run_riparian_2.py: the raster paths collected for the mosaic
    env_extent,      \* run_riparian_2.py: arcpy.env.extent, <<>> for None
    overwriteOutput, \* run_riparian_2.py: arcpy.env.overwriteOutput
    raster_files,    \* run_riparian_2.py: the unmasked rasters present on disk
    gdbs,            \* run_riparian_2.py: the intermediate geodatabases present
    huc_dirs,        \* run_riparian_2.py: entries of huc8_folder that are no files
    visits           \* history: one record per loop iteration begun

\* the state of run_riparian.py
ripVars == <<rip_pc, rip_layers, rip_raster>>

\* the state of createRiparian of run_riparian_2.py
crVars == <<cr_pc, workspace, raster_fields, in_table, rasterized, cr_error>>

\* the state of the HUC loop of run_riparian_2.py
mainVars ==
    <<hucs, huc_i, main_pc, huc_ras_list, env_extent, overwriteOutput,
      raster_files, gdbs, huc_dirs, visits>>

\* the state of the scripts other than create_lotic_water.py
scripts == <<ripVars, crVars, mainVars>>

\* the state of create_lotic_water.py
loticVars == <<df1, df2, sjoin_op, pc, batch_size, chunk_iterator, pool, task,
               map_value, map_exc, sj_results, ret, lotic_gdf, removed>>

\* the state outside sjoin_mp and its workers
outside == <<lotic_gdf, removed, scripts>>

vars == <<df1, df2, sjoin_op, pc, batch_size, chunk_iterator, pool, task,
          map_value, map_exc, sj_results, ret, outside>>

-----------------------------------------------------------------------------
(* Bounds of the model *)

\* longest left collection whose geometries are enumerated exhaustively
MaxLeft == 2
\* longest right collection
MaxRight == 3
\* longest left collection (geometries follow a two-value pattern)
MaxRecords == 13
\* longest right collection paired with a patterned left collection
MaxRightLong == 1
\* number of cells of the strip of land the riparian layers are drawn on
GridSize == 3
\* most layers an earlier run has left in the workspace of a HUC
MaxLeftover == 2
\* most entries of the folder huc8_folder
MaxHucs == 3

(* Program constants *)

NUM_CPUS == 6

Workers == 0 .. (NUM_CPUS - 1)

-----------------------------------------------------------------------------
(* Geometries and predicates *)

Geom(cells) == [cells |-> cells, valid |-> TRUE]

Malformed == [cells |-> {1}, valid |-> FALSE]

LeftGeoms == {Geom({1}), Geom({1, 2}), Malformed}

RightGeoms == {Geom({2}), Geom({1, 2})}

Ops == {"intersects", "within", "contains"}

\* the binary spatial predicate named by op, left geometry a, right geometry b
Predicate(op, a, b) ==
    CASE op = "intersects" -> a.cells \cap b.cells # {}
      [] op = "within"     -> a.cells \subseteq b.cells
      [] op = "contains"   -> b.cells \subseteq a.cells

-----------------------------------------------------------------------------
(* Sequence helpers *)

Min(a, b) == IF a < b THEN a ELSE b

RECURSIVE Flatten(_)
\* sum(list_of_lists, []): the lists concatenated in order
Flatten(ss) == IF ss = <<>> THEN <<>> ELSE Head(ss) \o Flatten(Tail(ss))

\* the set of elements of a sequence
Range(s) == {s[k] : k \in DOMAIN s}

\* df[mn:mx] of Python/pandas: positions mn..mx-1, clipped to the length
Slice(df, mn, mx) == SubSeq(df, Min(mn, Len(df)) + 1, Min(mx, Len(df)))


-----------------------------------------------------------------------------
(* The worker: sjoin(args) *)

\* the right-hand index labels 0..n-1 in order
IndexLabels(n) == [k \in 1 .. n |-> k - 1]

\* index labels of the right records that rec's geometry satisfies op against
MatchingRight(rec, right, op) ==
    SelectSeq(IndexLabels(Len(right)),
              LAMBDA r : Predicate(op, rec.geometry, right[r + 1]))

\* the joined rows of one left record: its own columns plus index_right
RowsFor(rec, right, op) ==
    LET m == MatchingRight(rec, right, op)
    IN  [k \in 1 .. Len(m) |->
            [id |-> rec.id, geometry |-> rec.geometry, index_right |-> m[k]]]

\* variant: how='left', an unmatched left record keeps a row (index_right NaN)
GpdSjoinLeft(left, right, op) ==
    Flatten([k \in 1 .. Len(left) |->
        IF RowsFor(left[k], right, op) = <<>>
        THEN <<[id |-> left[k].id, geometry |-> left[k].geometry,
                index_right |-> -1]>>
        ELSE RowsFor(left[k], right, op)])

\* gpd.sjoin(left, right, how='inner', op=op): the rows of every matching pair
GpdSjoin(left, right, op) ==
    Flatten([k \in 1 .. Len(left) |-> RowsFor(left[k], right, op)])

\* variant: the join also raises on a left frame without records
GpdSjoinRaisesOnEmpty(left, right, op) ==
    \/ left = <<>>
    \/ \E k \in DOMAIN left : \E r \in DOMAIN right :
          ~left[k].geometry.valid \/ ~right[r].valid

\* the geometry engine raises when a predicate is evaluated on a malformed
\* geometry; a predicate is evaluated for every (left, right) pair
GpdSjoinRaises(left, right, op) ==
    \E k \in DOMAIN left : \E r \in DOMAIN right :
        ~left[k].geometry.valid \/ ~right[r].valid

RECURSIVE DropDuplicates(_)
\* DataFrame.drop_duplicates(): a row equal in every column to an earlier row
\* is dropped, the first occurrence is kept
DropDuplicates(rows) ==
    IF rows = <<>> THEN <<>>
    ELSE LET front == SubSeq(rows, 1, Len(rows) - 1)
             last  == rows[Len(rows)]
         IN  IF last \in Range(front)
             THEN DropDuplicates(front)
             ELSE Append(DropDuplicates(front), last)

\* variant: the wrong column is read, list(sjoinSeg['index_right'])
IndexRightColumn(rows) == [k \in 1 .. Len(rows) |-> rows[k].index_right]

\* list(sjoinSeg['id'])
IdColumn(rows) == [k \in 1 .. Len(rows) |-> rows[k].id]

\* sjoin(args) when it returns: args = <<df1 chunk, df2, sjoin_op>>
sjoin(args) == IdColumn(DropDuplicates(GpdSjoin(args[1], args[2], args[3])))

\* sjoin(args) raises exactly when gpd.sjoin does (nothing is caught)
sjoinRaises(args) == GpdSjoinRaises(args[1], args[2], args[3])

-----------------------------------------------------------------------------
(* The coordinator: sjoin_mp(df1, sjoin_op, df2) *)

\* variant: the + 1 is forgotten
BatchSizeFloor(n) == n \div 6

\* variant: the rounded-up quotient ceil(len(df1) / 6)
BatchSizeCeil(n) == (n + 5) \div 6

\* batch_size = int(len(df1) / 6) + 1
BatchSize(n) == (n \div 6) + 1

\* variant: off by one at the lower end of every range
ChunkBoundsSkipFirst(i, b) == <<i * b + 1, (i + 1) * b>>

\* mn, mx = i * batch_size, (i + 1) * batch_size
ChunkBounds(i, b) == <<i * b, (i + 1) * b>>

\* gdf_args = df1[mn:mx], df2, sjoin_op
GdfArgs(i, b) ==
    LET mnmx == ChunkBounds(i, b)
    IN  <<Slice(df1, mnmx[1], mnmx[2]), df2, sjoin_op>>

\* variant: results are stored in the order the workers complete
SetResultByCompletion(value, i, res) ==
    [value EXCEPT ![Cardinality({j \in Workers : task[j] = "done"}) + 1] = res]

\* MapResult._set on success: the result goes to the slot of its task index
SetResult(value, i, res) == [value EXCEPT ![i + 1] = res]

\* variant: the result is ready as soon as one task has finished
MapReadyAny == \E i \in Workers : task[i] \in {"done", "failed"}

\* MapResult is ready once every task has finished (_number_left == 0)
MapReady == \A i \in Workers : task[i] \in {"done", "failed"}

\* variant: a worker's exception is swallowed
MapSuccessAlways == TRUE

\* MapResult._success: no task has raised
MapSuccess == map_exc = {}

ComputeBatch ==
    /\ pc = "start"
    /\ batch_size' = BatchSize(Len(df1))
    /\ pc' = "chunking"
    /\ UNCHANGED <<outside, df1, df2, sjoin_op, chunk_iterator, pool, task, map_value,
                   map_exc, sj_results, ret>>

AppendChunk ==
    /\ pc = "chunking"
    /\ Len(chunk_iterator) < NUM_CPUS
    /\ chunk_iterator' =
          Append(chunk_iterator, GdfArgs(Len(chunk_iterator), batch_size))
    /\ UNCHANGED <<outside, df1, df2, sjoin_op, pc, batch_size, pool, task, map_value,
                   map_exc, sj_results, ret>>

CreatePool ==
    /\ pc = "chunking"
    /\ Len(chunk_iterator) = NUM_CPUS
    /\ pool' = "open"
    /\ pc' = "map"
    /\ UNCHANGED <<outside, df1, df2, sjoin_op, batch_size, chunk_iterator, task,
                   map_value, map_exc, sj_results, ret>>

\* pool.map submits one task per element of chunk_iterator, all at once
MapDispatch ==
    /\ pc = "map"
    /\ task' = [i \in Workers |-> "running"]
    /\ map_value' = [k \in 1 .. Len(chunk_iterator) |-> <<>>]
    /\ pc' = "waiting"
    /\ UNCHANGED <<outside, df1, df2, sjoin_op, batch_size, chunk_iterator, pool,
                   map_exc, sj_results, ret>>

WorkerReturn(i) ==
    /\ task[i] = "running"
    /\ ~sjoinRaises(chunk_iterator[i + 1])
    /\ task' = [task EXCEPT ![i] = "done"]
    /\ map_value' = IF MapSuccess
                    THEN SetResult(map_value, i, sjoin(chunk_iterator[i + 1]))
                    ELSE map_value
    /\ UNCHANGED <<outside, df1, df2, sjoin_op, pc, batch_size, chunk_iterator, pool,
                   map_exc, sj_results, ret>>

WorkerRaise(i) ==
    /\ task[i] = "running"
    /\ sjoinRaises(chunk_iterator[i + 1])
    /\ task' = [task EXCEPT ![i] = "failed"]
    /\ map_exc' = IF MapSuccess THEN {i} ELSE map_exc
    /\ UNCHANGED <<outside, df1, df2, sjoin_op, pc, batch_size, chunk_iterator, pool,
                   map_value, sj_results, ret>>

\* sj_results = pool.map(sjoin, chunk_iterator), every task succeeded
MapReturn ==
    /\ pc = "waiting"
    /\ MapReady
    /\ MapSuccess
    /\ sj_results' = map_value
    /\ pc' = "close"
    /\ UNCHANGED <<outside, df1, df2, sjoin_op, batch_size, chunk_iterator, pool, task,
                   map_value, map_exc, ret>>

\* pool.map re-raises the stored exception; sjoin_mp catches nothing
MapRaise ==
    /\ pc = "waiting"
    /\ MapReady
    /\ ~MapSuccess
    /\ pc' = "raised"
    /\ UNCHANGED <<outside, df1, df2, sjoin_op, batch_size, chunk_iterator, pool, task,
                   map_value, map_exc, sj_results, ret>>

PoolClose ==
    /\ pc = "close"
    /\ pool' = "closed"
    /\ pc' = "concat"
    /\ UNCHANGED <<outside, df1, df2, sjoin_op, batch_size, chunk_iterator, task,
                   map_value, map_exc, sj_results, ret>>

\* sj_results = sum(sj_results, [])
Concat ==
    /\ pc = "concat"
    /\ sj_results' = Flatten(sj_results)
    /\ pc' = "return"
    /\ UNCHANGED <<outside, df1, df2, sjoin_op, batch_size, chunk_iterator, pool, task,
                   map_value, map_exc, ret>>

\* return sj_results
Return ==
    /\ pc = "return"
    /\ ret' = <<sj_results>>
    /\ pc' = "returned"
    /\ UNCHANGED <<outside, df1, df2, sjoin_op, batch_size, chunk_iterator, pool, task,
                   map_value, map_exc, sj_results>>

-----------------------------------------------------------------------------
(* The caller: remove_disconnected_features(facet_path, lotic_gdf), which    *)
(* calls sjoin_mp(lotic_gdf[['id','geometry']], 'intersects', facet)         *)

\* variant: the records whose id is not in the list are kept
IsinFilterInverted(gdf, ids) ==
    SelectSeq(gdf, LAMBDA rec : rec.id \notin Range(ids))

\* lotic_gdf[lotic_gdf['id'].isin(lotic_ids)]
IsinFilter(gdf, ids) == SelectSeq(gdf, LAMBDA rec : rec.id \in Range(ids))

\* print(f"Removing {len(lotic_gdf) - len(lotic_ids)} disconnected features")
ReportRemoved ==
    /\ pc = "returned"
    /\ sjoin_op = "intersects"
    /\ removed' = <<Len(lotic_gdf) - Len(ret[1])>>
    /\ pc' = "select"
    /\ UNCHANGED <<df1, df2, sjoin_op, batch_size, chunk_iterator, pool, task,
                   map_value, map_exc, sj_results, ret, lotic_gdf, scripts>>

\* lotic_gdf = lotic_gdf[lotic_gdf['id'].isin(lotic_ids)]; return lotic_gdf
SelectIntersecting ==
    /\ pc = "select"
    /\ lotic_gdf' = IsinFilter(lotic_gdf, ret[1])
    /\ pc' = "rdf_returned"
    /\ UNCHANGED <<df1, df2, sjoin_op, batch_size, chunk_iterator, pool, task,
                   map_value, map_exc, sj_results, ret, removed, scripts>>

-----------------------------------------------------------------------------
(* run_riparian.py: createRiparian.  A layer is the set of cells of a strip  *)
(* of land it covers; buffering adds the neighbouring cells, erasing is set  *)
(* difference, merging is union.                                             *)

Grid == 1 .. GridSize

RipInputs == {"vims_path", "DE_path", "lotic_path", "FACET_path"}

RipIntermediates ==
    {"shoreline", "shoreline_buffer", "shoreline_riparian",
     "FACET_shoreline_erase", "lotic_buffer", "lotic_riparian",
     "FACET_shoreline_lotic_erase", "FACET_riparian", "riparian_vector"}

\* arcpy.analysis.PairwiseBuffer: the input and everything within the distance
PairwiseBuffer(a) == a \cup {c \in Grid : c - 1 \in a \/ c + 1 \in a}

\* arcpy.analysis.PairwiseErase(in_features=a, erase_features=b)
PairwiseErase(a, b) == a \ b

\* arcpy.management.Merge(inputs=[a, b, ...])
Merge(inputs) == UNION inputs

\* run_riparian.py is not running
RiparianIdle ==
    /\ rip_pc = "idle"
    /\ rip_layers = [l \in {} |-> {}]
    /\ rip_raster = <<>>

\* shoreline(vims_path, DE_path, FACET_path)
rip_shoreline ==
    /\ rip_pc = "shoreline"
    /\ LET shoreline == Merge({rip_layers["vims_path"], rip_layers["DE_path"]})
           buffer    == PairwiseBuffer(shoreline)
       IN  rip_layers' =
              [rip_layers EXCEPT
                 !["shoreline"] = shoreline,
                 !["shoreline_buffer"] = buffer,
                 !["shoreline_riparian"] = PairwiseErase(buffer, shoreline),
                 !["FACET_shoreline_erase"] =
                     PairwiseErase(rip_layers["FACET_path"], buffer)]
    /\ rip_pc' = "lotic"
    /\ UNCHANGED <<rip_raster, loticVars, crVars, mainVars>>

\* lotic(lotic_path, FACET_shoreline_erase)
rip_lotic ==
    /\ rip_pc = "lotic"
    /\ LET lotic_buf == PairwiseBuffer(rip_layers["lotic_path"])
       IN  rip_layers' =
              [rip_layers EXCEPT
                 !["lotic_buffer"] = lotic_buf,
                 !["FACET_shoreline_lotic_erase"] =
                     PairwiseErase(rip_layers["FACET_shoreline_erase"],
                                   rip_layers["lotic_path"]),
                 !["lotic_riparian"] =
                     PairwiseErase(lotic_buf, rip_layers["lotic_path"])]
    /\ rip_pc' = "FACET"
    /\ UNCHANGED <<rip_raster, loticVars, crVars, mainVars>>

\* FACET(FACET_shoreline_lotic_erase)
rip_FACET ==
    /\ rip_pc = "FACET"
    /\ rip_layers' =
          [rip_layers EXCEPT
             !["FACET_riparian"] =
                 PairwiseBuffer(rip_layers["FACET_shoreline_lotic_erase"])]
    /\ rip_pc' = "merge"
    /\ UNCHANGED <<rip_raster, loticVars, crVars, mainVars>>

\* 4. arcpy.management.Merge(inputs=[...], output=rip_vector)
rip_Merge ==
    /\ rip_pc = "merge"
    /\ rip_layers' =
          [rip_layers EXCEPT
             !["riparian_vector"] =
                 Merge({rip_layers["shoreline_riparian"],
                        rip_layers["lotic_riparian"],
                        rip_layers["FACET_riparian"]})]
    /\ rip_pc' = "rasterize"
    /\ UNCHANGED <<rip_raster, loticVars, crVars, mainVars>>

\* 5., 6. the field Raster = 1 on every feature, PolygonToRaster on rip_vector
rip_Rasterize ==
    /\ rip_pc = "rasterize"
    /\ rip_raster' = <<rip_layers["riparian_vector"]>>
    /\ rip_pc' = "done"
    /\ UNCHANGED <<rip_layers, loticVars, crVars, mainVars>>

\* create_lotic_water.py is not running
LoticIdle ==
    /\ df1 = <<>>
    /\ df2 = <<>>
    /\ sjoin_op = "intersects"
    /\ pc = "idle"
    /\ batch_size = 0
    /\ chunk_iterator = <<>>
    /\ pool = "none"
    /\ task = [i \in Workers |-> "queued"]
    /\ map_value = <<>>
    /\ map_exc = {}
    /\ sj_results = <<>>
    /\ ret = <<>>
    /\ lotic_gdf = <<>>
    /\ removed = <<>>

\* run_riparian_2.py's createRiparian is not running
CreateRiparianIdle ==
    /\ cr_pc = "idle"
    /\ workspace = [l \in {} |-> "absent"]
    /\ raster_fields = {}
    /\ in_table = <<>>
    /\ rasterized = <<>>
    /\ cr_error = "none"

\* run_riparian_2.py's HUC loop is not running
MainIdle ==
    /\ hucs = <<>>
    /\ huc_i = 1
    /\ main_pc = "idle"
    /\ huc_ras_list = <<>>
    /\ env_extent = <<>>
    /\ overwriteOutput = FALSE
    /\ raster_files = {}
    /\ gdbs = {}
    /\ huc_dirs = {}
    /\ visits = <<>>

InitRiparian ==
    /\ rip_pc = "shoreline"
    /\ rip_layers \in
          {[l \in RipInputs \cup RipIntermediates |->
               IF l \in RipInputs THEN in[l] ELSE {}] :
             in \in [RipInputs -> SUBSET Grid]}
    /\ rip_raster = <<>>
    /\ LoticIdle
    /\ CreateRiparianIdle
    /\ MainIdle

NextRiparian ==
    \/ rip_shoreline
    \/ rip_lotic
    \/ rip_FACET
    \/ rip_Merge
    \/ rip_Rasterize

SpecRiparian == InitRiparian /\ [][NextRiparian]_vars

-----------------------------------------------------------------------------
(* run_riparian_2.py: createRiparian for one HUC.  The workspace holds each  *)
(* layer as "absent", "empty" (no feature) or "full" (at least one feature); *)
(* it may hold layers of an earlier run (the geodatabase already exists and  *)
(* arcpy.env.overwriteOutput is True).                                       *)

CrInputs == {"vims_path", "DE_path", "lotic_path", "FACET_data"}

CrLayers ==
    {"VIMS_clip", "DE_clip", "shoreline", "shoreline_buffer",
     "shoreline_riparian", "FACET_shoreline_erase", "lotic_buffer",
     "lotic_riparian", "FACET_shoreline_lotic_erase", "FACET_riparian",
     "riparian_vector"}

\* arcpy.Exists(f"{arcpy.env.workspace}/{layer}")
Exists(ws, layer) == ws[layer] # "absent"

\* int(arcpy.GetCount_management(layer).getOutput(0)) inside try/except: 0
\* for a layer that does not exist; only whether it is 0 is recorded
GetCount(ws, layer) == IF ws[layer] = "full" THEN 1 ELSE 0

\* arcpy.analysis.Clip(src, huc_mask, out), run when src has features: the
\* part of src inside the HUC, which may be nothing
ClipOutcomes(ws, src, out) ==
    IF ws[src] = "full"
    THEN {[ws EXCEPT ![out] = c] : c \in {"empty", "full"}}
    ELSE {ws}

\* PairwiseErase(a, b) of a layer b that does not cover a's source: what is
\* left of a may be nothing
EraseOutcomes(a, b) ==
    IF a = "full" /\ b = "full" THEN {"empty", "full"} ELSE {a}

\* Merge(inputs=[a, b]): the features of both
MergeContent(a, b) == IF a = "full" \/ b = "full" THEN "full" ELSE "empty"

\* shoreline(): 1. the clipped shorelines merged or copied into shoreline
ShorelineMerged(ws) ==
    IF Exists(ws, "VIMS_clip") /\ Exists(ws, "DE_clip")
    THEN [ws EXCEPT !["shoreline"] = MergeContent(ws["VIMS_clip"], ws["DE_clip"])]
    ELSE IF Exists(ws, "VIMS_clip")
    THEN [ws EXCEPT !["shoreline"] = ws["VIMS_clip"]]
    ELSE [ws EXCEPT !["shoreline"] = ws["DE_clip"]]

\* shoreline(): the else branch, no shoreline - just copy FACET and return
NoShoreline(ws) ==
    IF Exists(ws, "FACET_shoreline_erase") THEN ws
    ELSE [ws EXCEPT !["FACET_shoreline_erase"] = ws["FACET_data"]]

\* shoreline(): 2. buffer, 3. erase shoreline from buffer, 4. erase the
\* buffer from FACET, each skipped when its output exists
ShorelineSteps234(ws) ==
    LET w2 == IF Exists(ws, "shoreline_buffer") THEN ws
              ELSE [ws EXCEPT !["shoreline_buffer"] = ws["shoreline"]]
        w3 == IF Exists(w2, "shoreline_riparian") THEN w2
              ELSE [w2 EXCEPT !["shoreline_riparian"] = w2["shoreline_buffer"]]
    IN  IF Exists(w3, "FACET_shoreline_erase") THEN {w3}
        ELSE {[w3 EXCEPT !["FACET_shoreline_erase"] = c] :
                c \in EraseOutcomes(w3["FACET_data"], w3["shoreline_buffer"])}

\* shoreline(vims_path, DE_path, FACET_data, huc_mask, buffer_width): the
\* workspaces it may leave
ShorelineOutcomes(ws) ==
    IF Exists(ws, "shoreline") THEN ShorelineSteps234(ws)
    ELSE UNION
           {IF Exists(w, "VIMS_clip") \/ Exists(w, "DE_clip")
            THEN ShorelineSteps234(ShorelineMerged(w))
            ELSE {NoShoreline(w)} :
              w \in UNION {ClipOutcomes(v, "DE_path", "DE_clip") :
                            v \in ClipOutcomes(ws, "vims_path", "VIMS_clip")}}

\* lotic(lotic_path, FACET_shoreline_erase, buffer_width): the workspaces it
\* may leave
LoticOutcomes(ws) ==
    IF GetCount(ws, "lotic_path") > 0
    THEN LET w1 == IF Exists(ws, "lotic_buffer") THEN ws
                   ELSE [ws EXCEPT !["lotic_buffer"] = "full"]
             w3(w) == IF Exists(w, "lotic_riparian") THEN w
                      ELSE [w EXCEPT !["lotic_riparian"] = w["lotic_buffer"]]
         IN  IF Exists(w1, "FACET_shoreline_lotic_erase") THEN {w3(w1)}
             ELSE {w3([w1 EXCEPT !["FACET_shoreline_lotic_erase"] = c]) :
                     c \in EraseOutcomes(w1["FACET_shoreline_erase"], "full")}
    ELSE {[ws EXCEPT !["FACET_shoreline_lotic_erase"] = ws["FACET_shoreline_erase"]]}

\* FACET(FACET_shoreline_lotic_erase, buffer_width)
FacetOutcome(ws) ==
    IF Exists(ws, "FACET_riparian") THEN ws
    ELSE [ws EXCEPT !["FACET_riparian"] = ws["FACET_shoreline_lotic_erase"]]

\* 1. shoreline_riparian, FACET_shoreline_erase = shoreline(...)
cr_shoreline ==
    /\ cr_pc = "shoreline"
    /\ workspace' \in ShorelineOutcomes(workspace)
    /\ cr_pc' = "lotic"
    /\ UNCHANGED <<raster_fields, in_table, rasterized, cr_error, loticVars, ripVars, mainVars>>

\* 2. lotic_riparian, FACET_shoreline_lotic_erase = lotic(...)
cr_lotic ==
    /\ cr_pc = "lotic"
    /\ workspace' \in LoticOutcomes(workspace)
    /\ cr_pc' = "FACET"
    /\ UNCHANGED <<raster_fields, in_table, rasterized, cr_error, loticVars, ripVars, mainVars>>

\* 3. facet_riparian = FACET(...)
cr_FACET ==
    /\ cr_pc = "FACET"
    /\ workspace' = FacetOutcome(workspace)
    /\ cr_pc' = "merge"
    /\ UNCHANGED <<raster_fields, in_table, rasterized, cr_error, loticVars, ripVars, mainVars>>

\* 4. Merge the 3 riparian layers into a single feature layer
cr_merge ==
    /\ cr_pc = "merge"
    /\ LET shoreline_cnt == GetCount(workspace, "shoreline_riparian")
           lotic_cnt     == GetCount(workspace, "lotic_riparian")
       IN  IF shoreline_cnt = 0 /\ lotic_cnt = 0
           THEN /\ in_table' = <<"FACET_riparian">>
                /\ UNCHANGED workspace
           ELSE IF ~Exists(workspace, "riparian_vector")
           THEN /\ workspace' = [workspace EXCEPT !["riparian_vector"] = "full"]
                /\ in_table' = <<"riparian_vector">>
           ELSE UNCHANGED <<in_table, workspace>>
    /\ cr_pc' = "field"
    /\ UNCHANGED <<raster_fields, rasterized, cr_error, loticVars, ripVars, mainVars>>

\* 5. Create field to rasterize on; reading an unassigned in_table raises
cr_field ==
    /\ cr_pc = "field"
    /\ IF in_table = <<>>
       THEN /\ cr_error' = "UnboundLocalError"
            /\ cr_pc' = "raised"
            /\ UNCHANGED raster_fields
       ELSE /\ raster_fields' = raster_fields \cup {in_table[1]}
            /\ cr_pc' = "rasterize"
            /\ UNCHANGED cr_error
    /\ UNCHANGED <<workspace, in_table, rasterized, loticVars, ripVars, mainVars>>

\* 6. PolygonToRaster_conversion(rip_vector, "Raster", ...): fails on a layer
\* that does not exist or has no field Raster
cr_rasterize ==
    /\ cr_pc = "rasterize"
    /\ IF Exists(workspace, "riparian_vector") /\ "riparian_vector" \in raster_fields
       THEN /\ rasterized' = <<"riparian_vector">>
            /\ cr_pc' = "done"
            /\ UNCHANGED cr_error
       ELSE /\ cr_error' = "ExecuteError"
            /\ cr_pc' = "raised"
            /\ UNCHANGED rasterized
    /\ UNCHANGED <<workspace, raster_fields, in_table, loticVars, ripVars, mainVars>>

\* the workspaces createRiparian may find: the inputs, and the layers left
\* that an earlier run has put there
CrWorkspaces(left) ==
    {[l \in CrInputs \cup CrLayers |->
         IF l \in CrInputs THEN in[l]
         ELSE IF l \in left THEN old[l] ELSE "absent"] :
       in \in [CrInputs -> {"empty", "full"}],
       old \in [left -> {"empty", "full"}]}

InitCreateRiparian ==
    /\ cr_pc = "shoreline"
    /\ \E left \in {x \in SUBSET CrLayers : Cardinality(x) <= MaxLeftover} :
          workspace \in CrWorkspaces(left)
    /\ raster_fields \in
          SUBSET {l \in {"FACET_riparian", "riparian_vector"} : Exists(workspace, l)}
    /\ in_table = <<>>
    /\ rasterized = <<>>
    /\ cr_error = "none"
    /\ LoticIdle
    /\ RiparianIdle
    /\ MainIdle

NextCreateRiparian ==
    \/ cr_shoreline
    \/ cr_lotic
    \/ cr_FACET
    \/ cr_merge
    \/ cr_field
    \/ cr_rasterize

SpecCreateRiparian == InitCreateRiparian /\ [][NextCreateRiparian]_vars

-----------------------------------------------------------------------------
(* run_riparian_2.py: the loop over the HUCs.  A file name is the sequence   *)
(* of its parts between dots, so that huc.split(".") is the name itself.     *)

\* the names huc8_folder may hold: two of them share the part before the
\* first dot, one is not a shapefile
FolderEntries ==
    {<<"A", "shp">>, <<"A", "b", "shp">>, <<"B", "shp">>, <<"A", "dbf">>}

\* x[-3:] == 'shp'
EndsWithShp(x) == x[Len(x)] = "shp"

\* suffix = f'_{huc.split(".")[0]}'
Suffix(huc) == huc[1]

\* riparian_raster = f"{huc_output}/riparian_10m{suffix}_unmasked.tif"
RiparianRaster(huc) == <<"riparian_10m", Suffix(huc), "unmasked", "tif">>

\* f"riparian_intermediates{suffix}.gdb"
IntermediatesGdb(huc) == <<"riparian_intermediates", Suffix(huc), "gdb">>

\* the huc the for loop is at
Huc == hucs[huc_i]

\* if os.path.isfile(riparian_raster): skip, append, continue
LoopSkip ==
    /\ main_pc = "head"
    /\ huc_i <= Len(hucs)
    /\ RiparianRaster(Huc) \in raster_files
    /\ huc_ras_list' = Append(huc_ras_list, RiparianRaster(Huc))
    /\ visits' = Append(visits, [huc |-> Huc, existed |-> TRUE, outcome |-> "skipped"])
    /\ huc_i' = huc_i + 1
    /\ UNCHANGED <<hucs, main_pc, env_extent, overwriteOutput, raster_files,
                   gdbs, huc_dirs, loticVars, ripVars, crVars>>

\* set environment workspace and extent, subset FACET data
LoopPrepare ==
    /\ main_pc = "head"
    /\ huc_i <= Len(hucs)
    /\ RiparianRaster(Huc) \notin raster_files
    /\ IF IntermediatesGdb(Huc) \in gdbs
       THEN overwriteOutput' = TRUE /\ UNCHANGED gdbs
       ELSE gdbs' = gdbs \cup {IntermediatesGdb(Huc)} /\ UNCHANGED overwriteOutput
    /\ env_extent' = IF Huc \notin huc_dirs THEN <<Huc>> ELSE env_extent
    /\ visits' = Append(visits, [huc |-> Huc, existed |-> FALSE, outcome |-> "called"])
    /\ main_pc' = "call"
    /\ UNCHANGED <<hucs, huc_i, huc_ras_list, raster_files, huc_dirs,
                   loticVars, ripVars, crVars>>

\* except Exception as e: print the error and stop at once, a loop without
\* error isolation
CreateRiparianRaisesStops ==
    /\ main_pc = "call"
    /\ \E written \in BOOLEAN :
          raster_files' = IF written THEN raster_files \cup {RiparianRaster(Huc)}
                          ELSE raster_files
    /\ visits' = [visits EXCEPT ![Len(visits)].outcome = "failed"]
    /\ main_pc' = "complete"
    /\ UNCHANGED <<hucs, huc_i, huc_ras_list, env_extent, overwriteOutput, gdbs,
                   huc_dirs, loticVars, ripVars, crVars>>

\* createRiparian(...) returns: the raster is on disk and is appended
CreateRiparianReturns ==
    /\ main_pc = "call"
    /\ raster_files' = raster_files \cup {RiparianRaster(Huc)}
    /\ huc_ras_list' = Append(huc_ras_list, RiparianRaster(Huc))
    /\ visits' = [visits EXCEPT ![Len(visits)].outcome = "ok"]
    /\ main_pc' = "after"
    /\ UNCHANGED <<hucs, huc_i, env_extent, overwriteOutput, gdbs, huc_dirs,
                   loticVars, ripVars, crVars>>

\* createRiparian(...) raises, before or after the raster was written:
\* except Exception as e: print the error
CreateRiparianRaises ==
    /\ main_pc = "call"
    /\ \E written \in BOOLEAN :
          raster_files' = IF written THEN raster_files \cup {RiparianRaster(Huc)}
                          ELSE raster_files
    /\ visits' = [visits EXCEPT ![Len(visits)].outcome = "failed"]
    /\ main_pc' = "after"
    /\ UNCHANGED <<hucs, huc_i, huc_ras_list, env_extent, overwriteOutput, gdbs,
                   huc_dirs, loticVars, ripVars, crVars>>

\* time_dif(st); arcpy.env.extent = None; next huc
LoopResetExtent ==
    /\ main_pc = "after"
    /\ env_extent' = <<>>
    /\ huc_i' = huc_i + 1
    /\ main_pc' = "head"
    /\ UNCHANGED <<hucs, huc_ras_list, overwriteOutput, raster_files, gdbs,
                   huc_dirs, visits, loticVars, ripVars, crVars>>

\* print("\nAll Hucs Complete")
AllHucsComplete ==
    /\ main_pc = "head"
    /\ huc_i > Len(hucs)
    /\ main_pc' = "complete"
    /\ UNCHANGED <<hucs, huc_i, huc_ras_list, env_extent, overwriteOutput,
                   raster_files, gdbs, huc_dirs, visits, loticVars, ripVars, crVars>>

\* os.listdir(huc8_folder): at most MaxHucs entries, in any order
Listings ==
    UNION {{l \in [1..n -> FolderEntries] :
              \A a, b \in 1..n : a # b => l[a] # l[b]} : n \in 0..MaxHucs}

InitMain ==
    /\ \E listing \in Listings : hucs = SelectSeq(listing, EndsWithShp)
    /\ huc_i = 1
    /\ main_pc = "head"
    /\ huc_ras_list = <<>>
    /\ env_extent = <<>>
    /\ overwriteOutput = FALSE
    /\ raster_files \in SUBSET {RiparianRaster(h) : h \in Range(hucs)}
    /\ gdbs \in SUBSET {IntermediatesGdb(h) : h \in Range(hucs)}
    /\ huc_dirs \in SUBSET Range(hucs)
    /\ visits = <<>>
    /\ LoticIdle
    /\ RiparianIdle
    /\ CreateRiparianIdle

NextMain ==
    \/ LoopSkip
    \/ LoopPrepare
    \/ CreateRiparianReturns
    \/ CreateRiparianRaises
    \/ LoopResetExtent
    \/ AllHucsComplete

SpecMain == InitMain /\ [][NextMain]_vars

-----------------------------------------------------------------------------
(* Inputs and the specification *)

\* every sequence over S of length at most n
SeqsUpTo(S, n) == UNION {[1 .. m -> S] : m \in 0 .. n}

\* lotic_gdf.loc[:, 'id'] = range(len(lotic_gdf)): ids 0..N-1 by position
WithIds(geoms) == [k \in 1 .. Len(geoms) |-> [id |-> k - 1, geometry |-> geoms[k]]]

\* a left collection of n geometries alternating a, b, a, b, ...
Patterned(n, a, b) == [k \in 1 .. n |-> IF k % 2 = 1 THEN a ELSE b]

ShortLeft == {WithIds(g) : g \in SeqsUpTo(LeftGeoms, MaxLeft)}

LongLeft ==
    {WithIds(Patterned(n, a, b)) :
        n \in (MaxLeft + 1) .. MaxRecords, a \in LeftGeoms, b \in LeftGeoms}

\* short left collections are joined under every predicate, patterned ones
\* under 'intersects', the one remove_disconnected_features passes
Inputs ==
    (ShortLeft \X SeqsUpTo(RightGeoms, MaxRight))
        \cup (LongLeft \X SeqsUpTo(RightGeoms, MaxRightLong))

Init ==
    /\ \E in \in Inputs : df1 = in[1] /\ df2 = in[2]
    /\ sjoin_op \in IF Len(df1) <= MaxLeft THEN Ops ELSE {"intersects"}
    /\ pc = "start"
    /\ batch_size = 0
    /\ chunk_iterator = <<>>
    /\ pool = "none"
    /\ task = [i \in Workers |-> "queued"]
    /\ map_value = <<>>
    /\ map_exc = {}
    /\ sj_results = <<>>
    /\ ret = <<>>
    /\ lotic_gdf = df1
    /\ removed = <<>>
    /\ RiparianIdle
    /\ CreateRiparianIdle
    /\ MainIdle

Next ==
    \/ ComputeBatch
    \/ AppendChunk
    \/ CreatePool
    \/ MapDispatch
    \/ \E i \in Workers : WorkerReturn(i)
    \/ \E i \in Workers : WorkerRaise(i)
    \/ MapReturn
    \/ MapRaise
    \/ PoolClose
    \/ Concat
    \/ Return
    \/ ReportRemoved
    \/ SelectIntersecting

Spec == Init /\ [][Next]_vars

-----------------------------------------------------------------------------
(* Properties *)

N == Len(df1)

\* the identifiers of the left collection
LeftIds == {df1[k].id : k \in DOMAIN df1}

\* the chunks of the left collection held by chunk_iterator
Chunks == [k \in 1 .. Len(chunk_iterator) |-> chunk_iterator[k][1]]

\* the k-th chunk, gdf_args[k - 1][0]
Chunk(k) == chunk_iterator[k][1]

ChunkSizes == [k \in 1 .. Len(chunk_iterator) |-> Len(chunk_iterator[k][1])]

ChunksBuilt == Len(chunk_iterator) = NUM_CPUS

Returned == pc = "returned"

\* the list the caller received
Result == ret[1]

\* C1 - partition invariance: the set of identifiers sjoin_mp returns equals
\* the set of identifiers of one sjoin over the whole, unpartitioned df1.
PartitionInvariance ==
    Returned => Range(Result) = Range(sjoin(<<df1, df2, sjoin_op>>))

\* a join over chunks of several records that keeps some records and drops others
PartitionInvarianceWitness ==
    /\ Returned
    /\ batch_size >= 2
    /\ Range(Result) # {}
    /\ Range(Result) # LeftIds

\* C2 - de-duplication law: no identifier occurs twice in the returned list.
DeDuplicationLaw ==
    Returned => Cardinality(Range(Result)) = Len(Result)

\* C3 - exact partition: the 6 slices are pairwise non-overlapping, every
\* record lies in exactly one of them, their concatenation in order is df1,
\* their sizes sum to N, and N = 13 gives the sizes 3,3,3,3,1,0.
ExactPartition ==
    ChunksBuilt =>
        LET flat == Flatten(Chunks)
        IN  /\ flat = df1
            /\ \A r \in DOMAIN df1 :
                  Cardinality({k \in DOMAIN chunk_iterator :
                      \E a \in DOMAIN Chunk(k) : Chunk(k)[a] = df1[r]}) = 1
            /\ \A j, k \in DOMAIN chunk_iterator :
                  j # k => \A a \in DOMAIN Chunk(j), b \in DOMAIN Chunk(k) :
                              Chunk(j)[a] # Chunk(k)[b]
            /\ Len(flat) = N
            /\ (N = 13 => ChunkSizes = <<3, 3, 3, 3, 1, 0>>)

ExactPartitionWitness == ChunksBuilt /\ N = 13 /\ ChunkSizes[5] = 1

CeilDiv(n, k) == (n + k - 1) \div k

\* the records of df1 at positions lo .. hi-1 (positions are the ids)
Positions(lo, hi) == SelectSeq(df1, LAMBDA rec : lo <= rec.id /\ rec.id < hi)

\* C4 as stated - chunk-size formula: the ranges sjoin_mp uses are
\* [i*ceil(N/6), (i+1)*ceil(N/6)) clipped to N, for i = 0..5.
ChunkSizeIsCeil ==
    ChunksBuilt =>
        \A i \in Workers :
            Chunks[i + 1] =
                Positions(i * CeilDiv(N, NUM_CPUS), (i + 1) * CeilDiv(N, NUM_CPUS))

\* C4 as amended - the batch size is floor(N/6) + 1: it is ceil(N/6) when 6
\* does not divide N and ceil(N/6) + 1 when it does (N = 0 included), and the
\* ranges are [i*batch_size, (i+1)*batch_size) clipped to N.
ChunkSizeIsFloorPlusOne ==
    /\ pc # "start" =>
          /\ N % NUM_CPUS # 0 => batch_size = CeilDiv(N, NUM_CPUS)
          /\ N % NUM_CPUS = 0 => batch_size = CeilDiv(N, NUM_CPUS) + 1
    /\ ChunksBuilt =>
          \A i \in Workers :
              Chunk(i + 1) = Positions(i * batch_size, (i + 1) * batch_size)

\* 12 records: batches of 3, not of 2, and two empty chunks
ChunkSizeWitness ==
    ChunksBuilt /\ N = 12 /\ ChunkSizes = <<3, 3, 3, 3, 0, 0>>

\* the join computed from the inputs alone, chunk by chunk in index order
JoinOfInputs ==
    Flatten([k \in 1 .. NUM_CPUS |->
        sjoin(<<Positions((k - 1) * ((N \div 6) + 1), k * ((N \div 6) + 1)),
                df2, sjoin_op>>)])

\* C5 - determinism under scheduling: the returned list is a function of the
\* inputs; it is the same whatever the order in which the workers complete.
SchedulingDeterminism == Returned => Result = JoinOfInputs

\* several chunks contributed identifiers, so an order could have shown
SchedulingDeterminismWitness ==
    /\ Returned
    /\ \E i, j \in Workers :
          i # j /\ map_value[i + 1] # <<>> /\ map_value[j + 1] # <<>>

SomeFailed == \E i \in Workers : task[i] = "failed"

\* C6 - failure propagation: once a worker has raised, sjoin_mp returns no
\* list (not even of the chunks that succeeded) and the only way on is to
\* raise to the caller; a finished invocation is never run again.
FailurePropagation ==
    /\ [](SomeFailed => pc \in {"waiting", "raised"} /\ sj_results = <<>> /\ ret = <<>>)
    /\ [](pc = "raised" => SomeFailed)
    /\ [][SomeFailed /\ MapReady /\ pc = "waiting" => pc' = "raised"]_vars
    /\ [][\A i \in Workers :
            task[i] \in {"done", "failed"} => task'[i] = task[i]]_vars

\* sjoin_mp has raised although another chunk had matches to report
FailurePropagationWitness ==
    /\ pc = "raised"
    /\ \E i \in Workers :
          task[i] = "done" /\ sjoin(chunk_iterator[i + 1]) # <<>>

\* C7 - barrier join: the 6 invocations are dispatched together, and no
\* result list (sj_results, or the caller's) exists while one is running.
BarrierJoin ==
    /\ (\E i \in Workers : task[i] # "queued") =>
          (\A i \in Workers : task[i] # "queued")
    /\ (pc \in {"close", "concat", "return", "returned"}
            \/ sj_results # <<>> \/ ret # <<>>) =>
          (\A i \in Workers : task[i] \in {"done", "failed"})

\* a worker has delivered identifiers while another is still running
BarrierJoinWitness ==
    /\ pc = "waiting"
    /\ ret = <<>>
    /\ \E i, j \in Workers :
          /\ task[i] = "done" /\ map_value[i + 1] # <<>>
          /\ task[j] = "running"

\* C8 - subset: every returned identifier is the identifier of a record of df1.
SubsetOfLeft ==
    /\ Returned => Range(Result) \subseteq LeftIds
    /\ \A k \in DOMAIN map_value : Range(map_value[k]) \subseteq LeftIds

\* a match against a right record whose index label is no left identifier
SubsetOfLeftWitness ==
    /\ Returned
    /\ Result # <<>>
    /\ \E k \in DOMAIN df1 : \E r \in DOMAIN df2 :
          r - 1 \notin LeftIds /\ Predicate(sjoin_op, df1[k].geometry, df2[r])

\* C9 - empty chunks are a no-op: with N < 6, sjoin_mp builds and dispatches
\* 6 chunks, a chunk without records never raises and yields the empty list,
\* and with N = 0 the join returns the empty list.
EmptyChunksNoOp ==
    N < NUM_CPUS =>
        /\ pc \notin {"start", "chunking"} => ChunksBuilt
        /\ pc = "waiting" => \A i \in Workers : task[i] # "queued"
        /\ \A i \in Workers :
              (i < Len(chunk_iterator) /\ Chunk(i + 1) = <<>>) =>
                  /\ task[i] # "failed"
                  /\ sjoin(chunk_iterator[i + 1]) = <<>>
        /\ N = 0 => pc # "raised" /\ (Returned => Result = <<>>)

\* no left record at all, a non-empty right collection, and the join returned
EmptyChunksNoOpWitness ==
    /\ N = 0
    /\ df2 # <<>>
    /\ Returned
    /\ \A i \in Workers : task[i] = "done"

\* C10 - empty right-hand collection: for a non-empty df1 and an empty df2
\* every worker returns the empty list and sjoin_mp returns the empty list
\* without raising.
EmptyRight ==
    (df2 = <<>> /\ df1 # <<>>) =>
        /\ pc # "raised"
        /\ \A i \in Workers : task[i] # "failed"
        /\ \A k \in DOMAIN map_value : map_value[k] = <<>>
        /\ Returned => Result = <<>>

\* several records joined against no right record at all
EmptyRightWitness ==
    df2 = <<>> /\ N >= 2 /\ Returned /\ Result = <<>>

\* the index (1..6) of the chunk holding the record with identifier id
ChunkOf(id) ==
    CHOOSE k \in DOMAIN chunk_iterator :
        \E j \in DOMAIN Chunk(k) : Chunk(k)[j].id = id

\* C11 - chunk order is preserved: in the returned list every identifier of
\* chunk i comes before every identifier of chunk j whenever i < j.
ChunkOrderPreserved ==
    Returned =>
        \A p, q \in DOMAIN Result :
            ChunkOf(Result[p]) < ChunkOf(Result[q]) => p < q

\* identifiers of two different chunks of several records were returned
ChunkOrderPreservedWitness ==
    /\ Returned
    /\ batch_size >= 2
    /\ \E p, q \in DOMAIN Result : ChunkOf(Result[p]) < ChunkOf(Result[q])

\* C12 - pool lifecycle: the pool exists only once the 6 chunks are built, one
\* invocation is dispatched per chunk, and the pool is closed when control
\* has left sjoin_mp, by return or by a worker's exception.
PoolLifecycle ==
    /\ pool # "none" => ChunksBuilt
    /\ pc = "waiting" => \A i \in Workers : task[i] # "queued"
    /\ pc \in {"returned", "raised"} => pool = "closed"

\* the records of df1 whose geometry intersects some geometry of df2
Connected ==
    SelectSeq(df1, LAMBDA rec :
        \E r \in DOMAIN df2 : rec.geometry.cells \cap df2[r].cells # {})

\* C14 - remove_disconnected_features: the identifiers are 0..N-1 by position
\* and never reassigned, and the collection returned holds exactly the input
\* records that intersect a FACET geometry: a record is kept if and only if
\* its identifier is in sjoin_mp's list, and kept records are unchanged.
DisconnectedRemoved ==
    /\ \A k \in DOMAIN df1 : df1[k].id = k - 1
    /\ pc = "rdf_returned" =>
          /\ lotic_gdf = Connected
          /\ \A k \in DOMAIN df1 :
                df1[k] \in Range(lotic_gdf) <=> df1[k].id \in Range(Result)

\* some records were kept and some were removed
DisconnectedRemovedWitness ==
    /\ pc = "rdf_returned"
    /\ Len(lotic_gdf) > 0
    /\ Len(lotic_gdf) < N

\* C15 - the number reported as removed is non-negative and is the number of
\* records the isin filter dropped.
RemovedCount ==
    pc = "rdf_returned" =>
        /\ removed[1] >= 0
        /\ removed[1] = N - Len(lotic_gdf)

\* C13 - the riparian mask includes lotic water: every cell covered by a
\* lotic-water input feature is covered by the merged riparian_vector and by
\* the mask rasterized from it.
MaskIncludesLotic ==
    rip_pc = "done" =>
        /\ rip_layers["lotic_path"] \subseteq rip_layers["riparian_vector"]
        /\ rip_layers["lotic_path"] \subseteq rip_raster[1]

\* C16 - on every path that reaches steps 5 and 6 of createRiparian
\* (run_riparian_2.py), in_table has been assigned, and the layer handed to
\* PolygonToRaster exists and is the layer whose field Raster step 5 ensured.
RasterLayerReady ==
    /\ cr_pc = "field" => in_table # <<>>
    /\ cr_pc = "rasterize" =>
          /\ Exists(workspace, "riparian_vector")
          /\ in_table = <<"riparian_vector">>

\* the HUCs of the iterations begun so far
VisitedHucs == [k \in 1..Len(visits) |-> visits[k].huc]

\* the rasters of the iterations that skipped a complete HUC or processed
\* one successfully, in the order of the iterations
QualifyingRasters ==
    LET kept == SelectSeq(visits, LAMBDA v : v.outcome \in {"skipped", "ok"})
    IN  [k \in 1..Len(kept) |-> RiparianRaster(kept[k].huc)]

\* C17 - per-HUC error isolation in the main loop of run_riparian_2.py: the
\* HUCs are visited once each in list order; a HUC whose unmasked raster is on
\* disk is skipped without a call of createRiparian and its raster appended;
\* an exception of createRiparian does not stop the loop, appends nothing, and
\* arcpy.env.extent is None again before the next HUC; after the loop
\* huc_ras_list holds exactly one entry per skipped or successful HUC.
HucErrorIsolation ==
    /\ main_pc \in {"head", "complete"} =>
          /\ VisitedHucs = SubSeq(hucs, 1, huc_i - 1)
          /\ env_extent = <<>>
          /\ \A k \in 1..Len(visits) : visits[k].outcome # "called"
    /\ main_pc \in {"call", "after"} => VisitedHucs = SubSeq(hucs, 1, huc_i)
    /\ main_pc = "complete" => VisitedHucs = hucs
    /\ \A k \in 1..Len(visits) : visits[k].existed <=> visits[k].outcome = "skipped"
    /\ main_pc # "call" => huc_ras_list = QualifyingRasters

\* a finished loop of three HUCs where the first call failed, a later HUC
\* was skipped as complete and another was processed
HucErrorIsolationWitness ==
    /\ main_pc = "complete"
    /\ Len(visits) = 3
    /\ visits[1].outcome = "failed"
    /\ {visits[2].outcome, visits[3].outcome} = {"skipped", "ok"}

=============================================================================
